---- MODULE Spec2Model ----
(***************************************************************************)
(* A model of mixtape.py: the four extraction strategies, the decode cache *)
(* of input_wav, the assembler write_segments_to_wav, play_segments,       *)
(* parse_args and main.                                                    *)
(*                                                                         *)
(* A float (args.length, args.skip) is a multiple of 1/TimeDen second,     *)
(* held as its integer numerator, together with the sign of its rounding   *)
(* error: a decimal such as 0.29 has no exact binary form, the double that *)
(* holds it lies just below it, and so does its product with a sample      *)
(* rate: 0.29 * 100 is 28.999999999999996, whose int() is 28, while        *)
(* 129 + 0.29 * 100 rounds to 158.0. The error is either one that the      *)
(* rounding of every sum with a positive integer absorbs, or one that      *)
(* survives those sums.                                                    *)
(***************************************************************************)
EXTENDS Integers, Sequences, FiniteSets, TLC

\* ------------------------------------------------------------------ bounds
\* Longest source file, in samples.
MaxSamples == 3
\* Longest input list over all paths; lists over LongPaths are up to two longer.
MaxInputs == 1
\* Times are counted in units of 1/TimeDen second.
TimeDen == 3
\* Largest args.length and args.skip tried, in units of 1/TimeDen second.
MaxLength == 3
MaxSkip == 2
\* Cap on len(segments), above what any terminating extraction produces:
\* extract_slice's loop has no bound of its own.
MaxSegs == (MaxInputs + 2) * MaxSamples + 1

VARIABLES
    entry,        \* "main": a run of main(); "call": one call of an extractor
    pc,           \* position in the code
    args,         \* the argparse namespace
    inputs,       \* the `inputs` parameter of the extractor
    disk,         \* the file system: sources, args.tmpdir, the output path
    segments,     \* the `segments` list (extractor result, assembler/player input)
    outcome,      \* "none" while running, "returned", or the error raised
    reads,        \* every (input_filename, Wav) pair input_wav has returned
    index,        \* extract_slice: position of `filename` in inputs;
                  \* extract_transition: `index`; play_segments: loop position
    begin_pos,    \* extract_slice: sample cursor
    pos_name,     \* extract_slice: elapsed time of the label
    inwav,        \* extract_slice: the decoded file
    outwav_data,  \* write_segments_to_wav: the concatenated samples
    stdout,       \* what play_segments printed and played, in order
    argv,         \* history: the namespace as argparse filled it from the command line
    disk0         \* history: the file system when the run began

vars == <<entry, pc, args, inputs, disk, segments, outcome, reads, index,
          begin_pos, pos_name, inwav, outwav_data, stdout, argv, disk0>>

\* ------------------------------------------------------------- data model
None == <<>>
Some(v) == <<v>>

Min(a, b) == IF a < b THEN a ELSE b
Max(a, b) == IF a > b THEN a ELSE b

\* The float num/TimeDen (eps = 0), or the nearest double just below it: with
\* an error that a sum with a positive integer rounds away (eps = -1), or
\* with one that survives it (eps = -2).
Float(num, eps) == [num |-> num, eps |-> eps]
Eps == {0, -1, -2}
\* x * r for an integer r > 0, and x + y.
FloatMul(x, r) == Float(x.num * r, x.eps)
FloatAdd(x, y) == Float(x.num + y.num, IF x.eps < y.eps THEN x.eps ELSE y.eps)
\* b + x for an integer b >= 0, rounded to the nearest double; 0 + x is x.
IntAdd(b, x) == Float(b * TimeDen + x.num, IF b > 0 /\ x.eps = -1 THEN 0 ELSE x.eps)
\* Python's int(x): truncation toward 0.
IntOf(x) ==
    IF x.num >= 0
    THEN IF x.eps < 0 /\ x.num % TimeDen = 0 /\ x.num > 0
         THEN x.num \div TimeDen - 1
         ELSE x.num \div TimeDen
    ELSE -((-x.num) \div TimeDen)

Wav(sample_rate, data) == [sample_rate |-> sample_rate, data |-> data]
Segment(time, wav) == [time |-> time, wav |-> wav]
NoWav == Wav(0, <<>>)

\* numpy.concatenate of a list of arrays.
RECURSIVE Concatenate(_)
Concatenate(arrays) ==
    IF arrays = <<>> THEN <<>> ELSE Head(arrays) \o Concatenate(Tail(arrays))

\* data[b:e] and data[b:] of a sequence: an index below zero counts from the
\* end, and every index is clamped into 0..len(data).
PyIndex(i, n) == IF i < 0 THEN Max(i + n, 0) ELSE Min(i, n)
PySlice(data, b, e) ==
    LET lo == PyIndex(b, Len(data))
        hi == PyIndex(e, Len(data))
    IN  IF lo >= hi THEN <<>> ELSE SubSeq(data, lo + 1, hi)
PySliceFrom(data, b) ==
    LET lo == PyIndex(b, Len(data))
    IN  SubSeq(data, lo + 1, Len(data))

\* ----------------------------------------------------------- file system
\* A path is directory, leaf name without extension, extension.
Path(dir, leaf, ext) == [dir |-> dir, leaf |-> leaf, ext |-> ext]
Basename(f) == <<f.leaf, f.ext>>

Dirs == {"a", "b"}
\* Compressed sources: every length 0..MaxSamples in both directories, so
\* that a/k.mp3 and b/k.mp3 share their leaf name.
Mp3Paths == {Path(d, l, "mp3") : d \in Dirs, l \in 0..MaxSamples}
WavPath == Path("a", MaxSamples, "wav")
TxtPath == Path("a", 0, "txt")
\* Paths that name no file.
GonePaths == {Path("a", MaxSamples + 1, "mp3"), Path("a", MaxSamples + 1, "wav")}
Paths == Mp3Paths \cup {WavPath, TxtPath} \cup GonePaths
\* The files the longest input lists are drawn from.
LongPaths == {Path("a", MaxSamples, "mp3"), Path("b", MaxSamples, "mp3"), WavPath}

OutLeaf == -1
TmpDir == "tmp"
TmpPaths == {Path(TmpDir, l, "wav") : l \in (0..(MaxSamples + 1)) \cup {OutLeaf}}
OutPaths == {Path("out", OutLeaf, e) : e \in {"wav", "mp3"}}
Files == Paths \cup TmpPaths \cup OutPaths

Absent == [exists |-> FALSE, fmt |-> "", rate |-> 0, data |-> <<>>]
File(fmt, rate, data) == [exists |-> TRUE, fmt |-> fmt, rate |-> rate, data |-> data]
RateOf(dir) == IF dir = "a" THEN 1 ELSE 2
\* The audio of source f: f.leaf samples, each naming its file and position.
Audio(f) ==
    File(f.ext, RateOf(f.dir), [i \in 1..f.leaf |-> <<f.dir, f.leaf, f.ext, i>>])
OldOutput(f) == File(f.ext, 1, << <<"old", 0, f.ext, 1>> >>)
Disk0 == [f \in Files |-> IF f \in Paths \ GonePaths THEN Audio(f) ELSE Absent]

\* ------------------------------------------------ decoder / encoder adapter
\* convert_mp3_to_wav: nothing when the wav exists; ffmpeg (check=True) else.
ConvertMp3ToWav(d, mp3filename, wavfilename) ==
    IF d[wavfilename].exists
    THEN [disk |-> d, err |-> "none"]
    ELSE IF ~d[mp3filename].exists
         THEN [disk |-> d, err |-> "DecodeError"]
         ELSE [disk |-> [d EXCEPT ![wavfilename] = [d[mp3filename] EXCEPT !.fmt = "wav"]],
               err |-> "none"]

\* read_wav: scipy.io.wavfile.read.
ReadWav(d, wavfilename) ==
    IF d[wavfilename].exists
    THEN [disk |-> d, err |-> "none",
          wav |-> Wav(d[wavfilename].rate, d[wavfilename].data)]
    ELSE [disk |-> d, err |-> "IOError", wav |-> NoWav]

TmpName(f) == Path(TmpDir, f.leaf, "wav")

\* input_wav: [disk, err, wav].
InputWav(d, input_filename) ==
    IF input_filename.ext = "mp3"
    THEN LET c == ConvertMp3ToWav(d, input_filename, TmpName(input_filename))
         IN  IF c.err # "none"
             THEN [disk |-> c.disk, err |-> c.err, wav |-> NoWav]
             ELSE ReadWav(c.disk, TmpName(input_filename))
    ELSE IF input_filename.ext = "wav"
         THEN ReadWav(d, input_filename)
         ELSE [disk |-> d, err |-> "UnsupportedFormat", wav |-> NoWav]

\* -------------------------------------------------------------- extractors
\* The result of a call: the disk after it, the error raised ("none": it
\* returned), the segments returned, the input_wav results it got.
Result(d, err, segs, rd) == [disk |-> d, err |-> err, segs |-> segs, reads |-> rd]
Read(f, wav) == [path |-> f, wav |-> wav]

\* extract_beginning, lines 118-120, on the decoded file.
BeginningSegment(a, f, w) ==
    LET begin_pos_ == 0
        end_pos == IntOf(FloatMul(a.length[1], w.sample_rate))
    IN  Segment(<<Basename(f), "First", a.length[1]>>,
                Wav(w.sample_rate, PySlice(w.data, begin_pos_, end_pos)))

\* extract_end, lines 131-132, on the decoded file.
EndSegment(a, f, w) ==
    LET begin_pos_ == -IntOf(FloatMul(a.length[1], w.sample_rate))
    IN  Segment(<<Basename(f), "Last", a.length[1]>>,
                Wav(w.sample_rate, PySliceFrom(w.data, begin_pos_)))

ExtractBeginningOf(d, a, ins) ==
    IF Len(ins) = 0
    THEN Result(d, "IndexError", <<>>, <<>>)
    ELSE LET r == InputWav(d, ins[1])
         IN  IF r.err # "none"
             THEN Result(r.disk, r.err, <<>>, <<>>)
             ELSE Result(r.disk, "none", <<BeginningSegment(a, ins[1], r.wav)>>,
                         <<Read(ins[1], r.wav)>>)

ExtractEndOf(d, a, ins) ==
    IF Len(ins) = 0
    THEN Result(d, "IndexError", <<>>, <<>>)
    ELSE LET r == InputWav(d, ins[1])
         IN  IF r.err # "none"
             THEN Result(r.disk, r.err, <<>>, <<>>)
             ELSE Result(r.disk, "none", <<EndSegment(a, ins[1], r.wav)>>,
                         <<Read(ins[1], r.wav)>>)

\* format_time: divmod(seconds, 60) and '%u:%02u'; seconds in 1/TimeDen.
FormatTime(seconds) ==
    <<seconds \div (60 * TimeDen), (seconds % (60 * TimeDen)) \div TimeDen>>

\* Where control goes when the extractor returns or raises.
Returned == IF entry = "call" THEN "done" ELSE "output"
Finish(err, segs, d, rd) ==
    /\ pc' = IF err = "none" THEN Returned ELSE "done"
    /\ outcome' = IF err = "none"
                  THEN (IF entry = "call" THEN "returned" ELSE outcome)
                  ELSE err
    /\ segments' = segs
    /\ disk' = d
    /\ reads' = reads \o rd

locals == <<index, begin_pos, pos_name, inwav>>
later == <<outwav_data, stdout, argv, disk0>>

ExtractBeginning ==
    /\ pc = "extract"
    /\ args.extractor = "extract_beginning"
    /\ LET r == ExtractBeginningOf(disk, args, inputs)
       IN  Finish(r.err, r.segs, r.disk, r.reads)
    /\ UNCHANGED <<entry, args, inputs, locals, later>>

ExtractEnd ==
    /\ pc = "extract"
    /\ args.extractor = "extract_end"
    /\ LET r == ExtractEndOf(disk, args, inputs)
       IN  Finish(r.err, r.segs, r.disk, r.reads)
    /\ UNCHANGED <<entry, args, inputs, locals, later>>

\* extract_slice, line 142 and the first `for`.
ExtractSliceBegin ==
    /\ pc = "extract"
    /\ args.extractor = "extract_slice"
    /\ segments' = <<>>
    /\ index' = 1
    /\ pc' = "slice_for"
    /\ UNCHANGED <<entry, args, inputs, disk, outcome, reads, begin_pos,
                   pos_name, inwav, later>>

\* Lines 143-146: the next filename, decoded.
ExtractSliceFile ==
    /\ pc = "slice_for"
    /\ index <= Len(inputs)
    /\ LET r == InputWav(disk, inputs[index])
       IN  /\ disk' = r.disk
           /\ IF r.err # "none"
              THEN /\ pc' = "done"
                   /\ outcome' = r.err
                   /\ UNCHANGED <<reads, begin_pos, pos_name, inwav>>
              ELSE /\ pc' = "slice_while"
                   /\ begin_pos' = 0
                   /\ pos_name' = 0
                   /\ inwav' = r.wav
                   /\ reads' = Append(reads, Read(inputs[index], r.wav))
                   /\ UNCHANGED outcome
    /\ UNCHANGED <<entry, args, inputs, segments, index, later>>

\* The stride of line 151.
SliceStride(a, w) == IntOf(FloatMul(FloatAdd(a.length[1], a.skip[1]), w.sample_rate))

\* Line 148.
SliceEndPos(a, w, b) == IntOf(IntAdd(b, FloatMul(a.length[1], w.sample_rate)))

\* Lines 147-152: one iteration of the while loop.
ExtractSliceSegment ==
    /\ pc = "slice_while"
    /\ begin_pos < Len(inwav.data)
    /\ Len(segments) < MaxSegs
    /\ LET end_pos == SliceEndPos(args, inwav, begin_pos)
       IN  segments' = Append(segments,
                Segment(<<Basename(inputs[index]), FormatTime(pos_name)>>,
                        Wav(inwav.sample_rate, PySlice(inwav.data, begin_pos, end_pos))))
    /\ begin_pos' = begin_pos + SliceStride(args, inwav)
    /\ pos_name' = pos_name + FloatAdd(args.length[1], args.skip[1]).num
    /\ UNCHANGED <<entry, pc, args, inputs, disk, outcome, reads, index, inwav, later>>

\* Line 147 false: on to the next filename.
ExtractSliceFileDone ==
    /\ pc = "slice_while"
    /\ ~(begin_pos < Len(inwav.data))
    /\ index' = index + 1
    /\ pc' = "slice_for"
    /\ UNCHANGED <<entry, args, inputs, disk, segments, outcome, reads,
                   begin_pos, pos_name, inwav, later>>

\* Line 153.
ExtractSliceReturn ==
    /\ pc = "slice_for"
    /\ index > Len(inputs)
    /\ Finish("none", segments, disk, <<>>)
    /\ UNCHANGED <<entry, args, inputs, locals, later>>

\* extract_transition, lines 163-164.
ExtractTransitionBegin ==
    /\ pc = "extract"
    /\ args.extractor = "extract_transition"
    /\ segments' = <<>>
    /\ index' = 0
    /\ pc' = "transition_while"
    /\ UNCHANGED <<entry, args, inputs, disk, outcome, reads, begin_pos,
                   pos_name, inwav, later>>

\* inputs[index:index+1] for a 0-based index.
OneInput(ins, i) == PySlice(ins, i, i + 1)

\* Lines 165-168: one iteration; [disk, err, segs, reads] of the two calls.
TransitionPairMutant(d, a, ins, i) ==
    LET e == ExtractEndOf(d, a, OneInput(ins, i + 1))
    IN  IF e.err # "none"
        THEN e
        ELSE LET b == ExtractBeginningOf(e.disk, a, OneInput(ins, i))
             IN  Result(b.disk, b.err, b.segs \o e.segs, b.reads \o e.reads)
TransitionPair(d, a, ins, i) ==
    LET e == ExtractEndOf(d, a, OneInput(ins, i))
    IN  IF e.err # "none"
        THEN e
        ELSE LET b == ExtractBeginningOf(e.disk, a, OneInput(ins, i + 1))
             IN  Result(b.disk, b.err, e.segs \o b.segs, e.reads \o b.reads)

ExtractTransitionPair ==
    /\ pc = "transition_while"
    /\ index < Len(inputs) - 1
    /\ LET r == TransitionPair(disk, args, inputs, index)
       IN  /\ disk' = r.disk
           /\ reads' = reads \o r.reads
           /\ segments' = segments \o r.segs
           /\ IF r.err # "none"
              THEN pc' = "done" /\ outcome' = r.err
              ELSE pc' = pc /\ UNCHANGED outcome
    /\ index' = index + 1
    /\ UNCHANGED <<entry, args, inputs, begin_pos, pos_name, inwav, later>>

\* Line 169.
ExtractTransitionReturn ==
    /\ pc = "transition_while"
    /\ ~(index < Len(inputs) - 1)
    /\ Finish("none", segments, disk, <<>>)
    /\ UNCHANGED <<entry, args, inputs, locals, later>>

Extract ==
    \/ ExtractBeginning
    \/ ExtractEnd
    \/ ExtractSliceBegin
    \/ ExtractSliceFile
    \/ ExtractSliceSegment
    \/ ExtractSliceFileDone
    \/ ExtractSliceReturn
    \/ ExtractTransitionBegin
    \/ ExtractTransitionPair
    \/ ExtractTransitionReturn

\* ------------------------------------------------ calls of one extractor
Extractors == {"extract_beginning", "extract_end", "extract_slice", "extract_transition"}

SeqsUpTo(S, n) == UNION {[1..k -> S] : k \in 0..n}
\* Every list of up to MaxInputs paths, and the longer lists of LongPaths.
LongLists == [1..(MaxInputs + 1) -> LongPaths] \cup [1..(MaxInputs + 2) -> LongPaths]
InputLists == SeqsUpTo(Paths, MaxInputs) \cup LongLists

Namespace(output, play, force, extractor, length, skip, input) ==
    [output |-> output, play |-> play, force |-> force, extractor |-> extractor,
     length |-> length, skip |-> skip, input |-> input]

\* An extractor called with the arguments parse_args lets through (length
\* and skip given and > 0) on any input list, the empty one included, with
\* an empty scratch directory.
InitExtract ==
    /\ entry = "call"
    /\ pc = "extract"
    /\ \E x \in Extractors, l \in 1..MaxLength, e \in Eps, k \in 1..MaxSkip :
          args = Namespace(None, TRUE, FALSE, x, Some(Float(l, e)), Some(Float(k, 0)), <<>>)
    /\ inputs \in InputLists
    /\ disk = Disk0
    /\ segments = <<>>
    /\ outcome = "none"
    /\ reads = <<>>
    /\ index = 0
    /\ begin_pos = 0
    /\ pos_name = 0
    /\ inwav = NoWav
    /\ outwav_data = <<>>
    /\ stdout = <<>>
    /\ argv = args
    /\ disk0 = disk

NextExtract == Extract

SpecExtract == InitExtract /\ [][NextExtract]_vars

\* ------------------------------------------------------------- parse_args
DefaultLength == Float(30 * TimeDen, 0)
DefaultSliceLength == Float(1 * TimeDen, 0)
DefaultSkip == Float(5 * TimeDen, 0)

\* Line 205, evaluated left to right with `or` short-circuiting: comparing
\* None with 0 raises TypeError; parser.error exits.
CheckPositive(a) ==
    IF a.length = None THEN "TypeError"
    ELSE IF a.length[1].num <= 0 THEN "ArgumentError"
    ELSE IF a.skip = None THEN "TypeError"
    ELSE IF a.skip[1].num <= 0 THEN "ArgumentError"
    ELSE "none"

\* Lines 207-210.
WithDefaults(a) ==
    LET a1 == IF a.length = None
              THEN [a EXCEPT !.length =
                        IF a.extractor \in {"extract_beginning", "extract_end",
                                            "extract_transition"}
                        THEN Some(DefaultLength) ELSE Some(DefaultSliceLength)]
              ELSE a
    IN  IF a1.extractor = "extract_slice" /\ a1.skip = None
        THEN [a1 EXCEPT !.skip = Some(DefaultSkip)]
        ELSE a1

\* Lines 211-212.
CheckTransitionInputs(a) ==
    IF a.extractor = "extract_transition" /\ Len(a.input) < 2
    THEN "ArgumentError" ELSE "none"

\* parse_args from line 205 on: [err, args].
ParseArgsOf(a) ==
    IF CheckPositive(a) # "none"
    THEN [err |-> CheckPositive(a), args |-> a]
    ELSE [err |-> CheckTransitionInputs(WithDefaults(a)), args |-> WithDefaults(a)]

ParseArgs ==
    /\ pc = "parse_args"
    /\ LET r == ParseArgsOf(args)
       IN  /\ args' = r.args
           /\ IF r.err # "none"
              THEN pc' = "done" /\ outcome' = r.err
              ELSE pc' = "check_inputs" /\ UNCHANGED outcome
    /\ UNCHANGED <<entry, inputs, disk, segments, reads, locals, later>>

\* ------------------------------------------------------------------- main
\* Lines 222-224.
MainCheckInputs ==
    /\ pc = "check_inputs"
    /\ IF \E i \in DOMAIN args.input : ~disk[args.input[i]].exists
       THEN pc' = "done" /\ outcome' = "NotFound"
       ELSE pc' = "check_output" /\ UNCHANGED outcome
    /\ UNCHANGED <<entry, args, inputs, disk, segments, reads, locals, later>>

\* The condition of line 225.
RefuseOverwriteMutant(a, d) == a.output # None /\ d[a.output[1]].exists /\ a.force
RefuseOverwrite(a, d) == a.output # None /\ d[a.output[1]].exists /\ ~a.force

\* Lines 225-227: refuse, or call args.extractor(args, args.input).
MainCheckOutput ==
    /\ pc = "check_output"
    /\ IF RefuseOverwrite(args, disk)
       THEN pc' = "done" /\ outcome' = "OutputExists" /\ UNCHANGED inputs
       ELSE pc' = "extract" /\ inputs' = args.input /\ UNCHANGED outcome
    /\ UNCHANGED <<entry, args, disk, segments, reads, locals, later>>

\* ---------------------------------------------------------- play_segments
Event(ev, seg, text) == [ev |-> ev, seg |-> seg, text |-> text]

\* Line 229 and the head of the `for` of line 71.
MainPlay ==
    /\ pc = "output"
    /\ args.play
    /\ pc' = "play_for"
    /\ index' = 1
    /\ UNCHANGED <<entry, args, inputs, disk, segments, outcome, reads,
                   begin_pos, pos_name, inwav, later>>

\* Line 72.
PlayPrint ==
    /\ pc = "play_for"
    /\ index <= Len(segments)
    /\ stdout' = Append(stdout, Event("print", index, segments[index].time))
    /\ pc' = "play_play"
    /\ UNCHANGED <<entry, args, inputs, disk, segments, outcome, reads, locals,
                   outwav_data, argv, disk0>>

\* Line 73: sounddevice.play starts the segment.
PlayStart ==
    /\ pc = "play_play"
    /\ stdout' = Append(stdout, Event("play", index, <<>>))
    /\ pc' = "play_wait"
    /\ UNCHANGED <<entry, args, inputs, disk, segments, outcome, reads, locals,
                   outwav_data, argv, disk0>>

\* Line 74: sounddevice.wait returns when the segment has played.
PlayWait ==
    /\ pc = "play_wait"
    /\ stdout' = Append(stdout, Event("played", index, <<>>))
    /\ index' = index + 1
    /\ pc' = "play_for"
    /\ UNCHANGED <<entry, args, inputs, disk, segments, outcome, reads,
                   begin_pos, pos_name, inwav, outwav_data, argv, disk0>>

\* The for loop is exhausted.
PlayLoopEnd ==
    /\ pc = "play_for"
    /\ index > Len(segments)
    /\ pc' = "play_end"
    /\ UNCHANGED <<entry, args, inputs, disk, segments, outcome, reads, locals, later>>

\* Where a KeyboardInterrupt raised inside the try leaves control: lines 75-76.
AfterInterruptMutant == "play_for"
AfterInterrupt == "play_end"

\* A KeyboardInterrupt anywhere inside the try block.
PlayInterrupt ==
    /\ pc \in {"play_for", "play_play", "play_wait"}
    /\ stdout' = Append(stdout, Event("KeyboardInterrupt", index, <<>>))
    /\ pc' = AfterInterrupt
    /\ UNCHANGED <<entry, args, inputs, disk, segments, outcome, reads, locals,
                   outwav_data, argv, disk0>>

\* Any other exception of sounddevice.play or sounddevice.wait: lines 77-78.
PlayFail ==
    /\ pc \in {"play_play", "play_wait"}
    /\ pc' = "done"
    /\ outcome' = "PortAudioError"
    /\ UNCHANGED <<entry, args, inputs, disk, segments, reads, locals, later>>

\* Line 79, and main returns.
PlayNewline ==
    /\ pc = "play_end"
    /\ stdout' = Append(stdout, Event("newline", 0, <<>>))
    /\ pc' = "done"
    /\ outcome' = "returned"
    /\ UNCHANGED <<entry, args, inputs, disk, segments, reads, locals,
                   outwav_data, argv, disk0>>

\* -------------------------------------------------- write_segments_to_wav
\* The file write_segments_to_wav is given: lines 231-236.
OutWavFilename(a) ==
    IF a.output[1].ext = "mp3" THEN Path(TmpDir, OutLeaf, "wav") ELSE a.output[1]

\* The assertion of line 60.
SameSampleRateMutant(segs) ==
    segs[Len(segs)].wav.sample_rate = segs[1].wav.sample_rate
SameSampleRate(segs) ==
    \A i \in DOMAIN segs : segs[i].wav.sample_rate = segs[1].wav.sample_rate

\* Lines 59-60.
WriteCheck ==
    /\ pc = "output"
    /\ ~args.play
    /\ IF Len(segments) = 0
       THEN pc' = "done" /\ outcome' = "IndexError"
       ELSE IF ~SameSampleRate(segments)
            THEN pc' = "done" /\ outcome' = "AssertionError"
            ELSE pc' = "write_concat" /\ UNCHANGED outcome
    /\ UNCHANGED <<entry, args, inputs, disk, segments, reads, locals, later>>

\* Line 61. An empty result is held as <<None>>, so that it is told from
\* no result.
WriteConcat ==
    /\ pc = "write_concat"
    /\ outwav_data' = <<Concatenate([i \in DOMAIN segments |-> segments[i].wav.data])>>
    /\ pc' = "write_file"
    /\ UNCHANGED <<entry, args, inputs, disk, segments, outcome, reads, locals,
                   stdout, argv, disk0>>

\* Line 62.
WriteFile ==
    /\ pc = "write_file"
    /\ disk' = [disk EXCEPT ![OutWavFilename(args)] =
                    File("wav", segments[1].wav.sample_rate, outwav_data[1])]
    /\ IF args.output[1].ext = "mp3"
       THEN pc' = "convert" /\ UNCHANGED outcome
       ELSE pc' = "done" /\ outcome' = "returned"
    /\ UNCHANGED <<entry, args, inputs, segments, reads, locals, later>>

\* convert_wav_to_mp3: ffmpeg -y (force) or -n, check=True.
ConvertWavToMp3(d, wavfilename, mp3filename, force) ==
    IF ~d[wavfilename].exists \/ (d[mp3filename].exists /\ ~force)
    THEN [disk |-> d, err |-> "EncodeError"]
    ELSE [disk |-> [d EXCEPT ![mp3filename] = [d[wavfilename] EXCEPT !.fmt = "mp3"]],
          err |-> "none"]

\* Line 234.
MainConvert ==
    /\ pc = "convert"
    /\ LET c == ConvertWavToMp3(disk, OutWavFilename(args), args.output[1], args.force)
       IN  /\ disk' = c.disk
           /\ outcome' = IF c.err = "none" THEN "returned" ELSE c.err
    /\ pc' = "done"
    /\ UNCHANGED <<entry, args, inputs, segments, reads, locals, later>>

\* ------------------------------------------------------------ runs of main
\* The files main's input lists are drawn from: sources of both rates and
\* formats, an empty one, and a path that names no file.
MainPaths == LongPaths \cup {Path("a", 0, "mp3"), Path("a", MaxSamples + 1, "wav")}
MainInputLists == (SeqsUpTo(MainPaths, MaxInputs) \ {<<>>}) \cup LongLists

\* What argparse lets through: output xor play, one extractor, one or more
\* inputs, any float or nothing for length and skip.
Init ==
    /\ entry = "main"
    /\ pc = "parse_args"
    /\ \E o \in {None} \cup {Some(f) : f \in OutPaths}, force \in BOOLEAN,
          x \in Extractors,
          l \in {None, Some(Float(0, 0)), Some(Float(MaxLength, 0))},
          k \in {None, Some(Float(0, 0)), Some(Float(1, 0))},
          ins \in MainInputLists, present \in BOOLEAN :
          /\ args = Namespace(o, o = None, force, x, l, k, ins)
          /\ o = None => ~present
          /\ disk = IF present
                    THEN [Disk0 EXCEPT ![o[1]] = OldOutput(o[1])]
                    ELSE Disk0
    /\ inputs = <<>>
    /\ segments = <<>>
    /\ outcome = "none"
    /\ reads = <<>>
    /\ index = 0
    /\ begin_pos = 0
    /\ pos_name = 0
    /\ inwav = NoWav
    /\ outwav_data = <<>>
    /\ stdout = <<>>
    /\ argv = args
    /\ disk0 = disk

Next ==
    \/ ParseArgs
    \/ MainCheckInputs
    \/ MainCheckOutput
    \/ Extract
    \/ MainPlay
    \/ PlayPrint
    \/ PlayStart
    \/ PlayWait
    \/ PlayLoopEnd
    \/ PlayInterrupt
    \/ PlayFail
    \/ PlayNewline
    \/ WriteCheck
    \/ WriteConcat
    \/ WriteFile
    \/ MainConvert

Spec == Init /\ [][Next]_vars


\* ====================================================================
\* Properties of the extractors, under SpecExtract
\* ====================================================================
CallReturned(x) ==
    /\ entry = "call"
    /\ args.extractor = x
    /\ pc = "done"
    /\ outcome = "returned"

\* The decoded audio of source file f itself.
SourceWav(f) == Wav(disk0[f].rate, disk0[f].data)

\* C1: extract_end on a non-empty list returns exactly one Segment, with the
\* source's sample rate and the last min(n, L) samples of the first input
\* file, n = int(length * sampleRate), for every n >= 0 (n = 0 and n > L too).
C1_EndIsTail ==
    (CallReturned("extract_end") /\ Len(inputs) >= 1) =>
        LET w == SourceWav(inputs[1])
            L == Len(w.data)
            n == IntOf(FloatMul(args.length[1], w.sample_rate))
            m == IF n < L THEN n ELSE L
        IN  /\ Len(segments) = 1
            /\ segments[1].wav.sample_rate = w.sample_rate
            /\ segments[1].wav.data = SubSeq(w.data, L - m + 1, L)

\* n and s of C2 for a decoded file w.
C2_n(w) == IntOf(FloatMul(args.length[1], w.sample_rate))
C2_s(w) == IntOf(FloatMul(FloatAdd(args.length[1], args.skip[1]), w.sample_rate))
\* The segments C2 lists for w: starts 0, s, 2s, ... below L, the k-th being
\* samples [k*s, min(k*s + n, L)).
C2_Expected(w) ==
    LET L == Len(w.data)
        count == (L + C2_s(w) - 1) \div C2_s(w)
    IN  [k \in 1..count |->
            Wav(w.sample_rate,
                SubSeq(w.data, (k - 1) * C2_s(w) + 1,
                       IF (k - 1) * C2_s(w) + C2_n(w) < L
                       THEN (k - 1) * C2_s(w) + C2_n(w) ELSE L))]

\* C2: with n = int(length * sampleRate) and stride
\* s = int((length + skip) * sampleRate) >= 1, extract_slice emits for each
\* input file, in input order, exactly the segments starting at 0, s, 2s, ...
\* below the length L of the file's buffer, the k-th being samples
\* [k*s, min(k*s + n, L)): ceil(L/s) segments, none overlapping the next, the
\* last one clamped and kept.
C2_SliceSegments ==
    (CallReturned("extract_slice")
        /\ \A i \in DOMAIN reads : C2_s(reads[i].wav) >= 1) =>
        /\ Len(reads) = Len(inputs)
        /\ \A i \in DOMAIN reads : reads[i].path = inputs[i]
        /\ [j \in DOMAIN segments |-> segments[j].wav]
              = Concatenate([i \in DOMAIN reads |-> C2_Expected(reads[i].wav)])

\* C3: extract_transition on N >= 2 files returns 2*(N-1) Segments; for each
\* i in 1..N-1, position 2i-1 is the segment extract_end produces for file i
\* and position 2i the one extract_beginning produces for file i+1.
C3_TransitionPairs ==
    (CallReturned("extract_transition") /\ Len(inputs) >= 2) =>
        /\ Len(segments) = 2 * (Len(inputs) - 1)
        /\ \A i \in 1..(Len(inputs) - 1) :
              /\ <<segments[2 * i - 1]>> = ExtractEndOf(disk, args, <<inputs[i]>>).segs
              /\ <<segments[2 * i]>> = ExtractBeginningOf(disk, args, <<inputs[i + 1]>>).segs

\* A transition over three files, the neighbours distinct, whose end and
\* beginning segments differ.
C3_Witness ==
    /\ CallReturned("extract_transition")
    /\ Len(inputs) >= 3
    /\ inputs[1] # inputs[2]
    /\ inputs[2] # inputs[3]
    /\ segments[2].wav # segments[3].wav
    /\ Len(segments[1].wav.data) >= 1

TooShort ==
    IF args.extractor = "extract_transition" THEN Len(inputs) < 2 ELSE Len(inputs) = 0

\* C5: every extractor called with a too-short input list (empty; fewer than
\* 2 files for extract_transition) ends in an InvalidInput error, never in an
\* index fault and never in a normal return.
C5_TooShortIsInvalidInput ==
    (entry = "call" /\ pc = "done" /\ TooShort) => outcome = "InvalidInput"

\* C9: in extract_slice, for length > 0 and skip > 0, every iteration of the
\* while loop strictly increases begin_pos.
C9_CursorAdvances ==
    [][(pc = "slice_while" /\ segments' # segments) => begin_pos' > begin_pos]_vars

\* C10: every buffer input_wav returns for input file f is the decoded audio
\* of f itself.
C10_OwnAudio ==
    \A i \in DOMAIN reads : reads[i].wav = SourceWav(reads[i].path)

\* ====================================================================
\* Properties of main, under Spec
\* ====================================================================
\* write_segments_to_wav has been called.
Assembling ==
    /\ entry = "main"
    /\ ~args.play
    /\ \/ pc \in {"write_concat", "write_file", "convert"}
       \/ pc = "done" /\ outcome \in {"returned", "IndexError", "AssertionError",
                                       "EncodeError"}

MixedRates ==
    \E i, j \in DOMAIN segments : segments[i].wav.sample_rate # segments[j].wav.sample_rate

\* C4: write_segments_to_wav on a list holding two segments of different
\* sample rates, wherever they stand, fails on the sample-rate check before
\* any data is concatenated and before any file is written.
C4_MixedRatesRejected ==
    (Assembling /\ MixedRates) =>
        /\ pc = "done"
        /\ outcome = "AssertionError"
        /\ outwav_data = <<>>
        /\ \A f \in OutPaths \cup {Path(TmpDir, OutLeaf, "wav")} : disk[f] = disk0[f]

\* The assembler refused a list whose first and last segments agree and a
\* middle one differs.
C4_Witness ==
    /\ Assembling
    /\ outcome = "AssertionError"
    /\ Len(segments) >= 3
    /\ segments[1].wav.sample_rate = segments[Len(segments)].wav.sample_rate
    /\ \E i \in DOMAIN segments : segments[i].wav.sample_rate # segments[1].wav.sample_rate

\* main was started with an output path that exists and without --force.
OutputInTheWay ==
    /\ entry = "main"
    /\ argv.output # None
    /\ disk0[argv.output[1]].exists
    /\ ~argv.force

NothingDone ==
    /\ disk = disk0
    /\ reads = <<>>
    /\ segments = <<>>
    /\ outwav_data = <<>>
    /\ stdout = <<>>
    /\ pc \in {"parse_args", "check_inputs", "check_output", "done"}

\* C6 as claimed, on the runs whose command line parse_args accepts: such a
\* run ends with the output-exists error, nothing decoded, extracted or
\* written and the output file unchanged throughout.
C6_EndsOutputExists ==
    (OutputInTheWay /\ ParseArgsOf(argv).err = "none") =>
        /\ NothingDone
        /\ pc = "done" => outcome = "OutputExists"

\* C6 as amended: such a run ends with an error exit, nothing decoded,
\* extracted or written and the output file unchanged throughout; the error
\* is the output-exists one exactly when parse_args returned and every input
\* file exists, and else parse_args's failure or the input-not-found exit.
C6_RefusesOverwrite ==
    OutputInTheWay =>
        /\ NothingDone
        /\ disk[argv.output[1]] = OldOutput(argv.output[1])
        /\ pc = "done" =>
              /\ outcome \in {"TypeError", "ArgumentError", "NotFound", "OutputExists"}
              /\ outcome = "OutputExists" <=>
                    /\ argv.length # None /\ argv.length[1].num > 0
                    /\ argv.skip # None /\ argv.skip[1].num > 0
                    /\ ~(argv.extractor = "extract_transition" /\ Len(argv.input) < 2)
                    /\ \A i \in DOMAIN argv.input : disk0[argv.input[i]].exists

\* The refusal itself, for the compressed output format.
C6_Witness ==
    /\ OutputInTheWay
    /\ pc = "done"
    /\ outcome = "OutputExists"
    /\ argv.output[1].ext = "mp3"

\* C7: parse_args returns without a fault when length or skip is left out
\* and the rest is valid, with length 30.0 (beginning, end, transition) or 1.0
\* (slice) for a missing length, skip 5.0 for a missing skip in slice mode,
\* and a missing skip accepted in the other modes.
C7_Defaults ==
    (/\ entry = "main"
     /\ pc # "parse_args"
     /\ argv.length = None \/ argv.length[1].num > 0
     /\ argv.skip = None \/ argv.skip[1].num > 0
     /\ ~(argv.extractor = "extract_transition" /\ Len(argv.input) < 2)) =>
        /\ outcome \notin {"TypeError", "ArgumentError"}
        /\ args.length = IF argv.length # None THEN argv.length
                         ELSE IF argv.extractor = "extract_slice"
                              THEN Some(Float(1 * TimeDen, 0))
                              ELSE Some(Float(30 * TimeDen, 0))
        /\ args.skip = IF argv.skip # None THEN argv.skip
                       ELSE IF argv.extractor = "extract_slice"
                            THEN Some(Float(5 * TimeDen, 0)) ELSE None

\* play_segments has been called.
Playing ==
    /\ entry = "main"
    /\ args.play
    /\ \/ pc \in {"play_for", "play_play", "play_wait", "play_end"}
       \/ pc = "done" /\ outcome \in {"returned", "PortAudioError"}

IsPlayEvent(e) == e.ev \in {"print", "play", "played"}
Interrupted == \E j \in DOMAIN stdout : stdout[j].ev = "KeyboardInterrupt"
Newlines == Cardinality({j \in DOMAIN stdout : stdout[j].ev = "newline"})

\* The j-th thing play_segments does to the segments when nothing stops it.
PlayStep(j) ==
    LET i == (j - 1) \div 3 + 1
    IN  CASE (j - 1) % 3 = 0 -> Event("print", i, segments[i].time)
          [] (j - 1) % 3 = 1 -> Event("play", i, <<>>)
          [] OTHER -> Event("played", i, <<>>)

\* C8: play_segments prints, starts and waits out each segment in list
\* order, one after the other; after a KeyboardInterrupt inside the loop
\* nothing more is printed, started or repeated, no error leaves
\* play_segments and the final newline is printed exactly once; any other
\* failure propagates and no later segment is started.
C8_PlayInOrder ==
    Playing =>
        LET done == SelectSeq(stdout, IsPlayEvent)
        IN  /\ Len(done) <= 3 * Len(segments)
            /\ \A j \in DOMAIN done : done[j] = PlayStep(j)
            /\ \A j \in DOMAIN stdout :
                  stdout[j].ev = "KeyboardInterrupt" =>
                      \A k \in (j + 1)..Len(stdout) : stdout[k].ev = "newline"
            /\ Newlines <= 1
            /\ Newlines = 1 => stdout[Len(stdout)].ev = "newline"
            /\ (pc = "done" /\ Interrupted) => (outcome = "returned" /\ Newlines = 1)
            /\ (pc = "done" /\ outcome = "returned") =>
                  /\ Newlines = 1
                  /\ ~Interrupted => Len(done) = 3 * Len(segments)
            /\ (pc = "done" /\ outcome = "PortAudioError") =>
                  (~Interrupted /\ done[Len(done)].ev \in {"print", "play"})

\* A KeyboardInterrupt while the second of several segments was playing,
\* the run over.
C8_Witness ==
    /\ Playing
    /\ pc = "done"
    /\ Len(segments) >= 3
    /\ \E j \in DOMAIN stdout :
          /\ stdout[j].ev = "KeyboardInterrupt"
          /\ stdout[j].seg = 2
          /\ stdout[j - 1].ev = "play"


====
